---- MODULE Spec2Model ----
(***************************************************************************)
(* Model of lib/sitemap.js: the Sitemap document (entry list, cache,       *)
(* XML-builder state, rendering) and the SitemapIndex partitioner          *)
(* (chunking, per-chunk file streams, completion counter).                 *)
(*                                                                         *)
(* Strings that the code inspects character by character (URLs, the       *)
(* hostname) are sequences of one-character strings.  A rendered XML       *)
(* document is the sequence of its nodes, each node a record               *)
(* [tag, val]; the empty sequence is the empty string ''.                  *)
(***************************************************************************)
EXTENDS Integers, Sequences, FiniteSets, TLC

\* ------------------------------------------------------------------ bounds
MaxUrls == 3
MaxDocUrls == 2
MaxTime == 2
MaxInstructions == 3
MaxIndexUrls == 3
MaxSitemapSize == 2
MaxItemUrls == 2
MaxAsync == 2
MaxUrlLen == 12

\* --------------------------------------------------------------- constants
\* value of a field that was never assigned (this.cacheSetTimestamp before
\* the first setCache)
Undefined == -1

VARIABLES
  urls,               \* this.urls
  hostname,           \* this.hostname  (<<>> when not given)
  cacheResetPeriod,   \* this.cacheResetPeriod
  cache,              \* this.cache     (<<>> is '')
  cacheSetTimestamp,  \* this.cacheSetTimestamp
  xslUrl,             \* this.xslUrl    (<<>> when not given)
  xmlNs,              \* this.xmlNs, as the list of attribute names it declares
  rootAttributes,     \* this.root.attributes (names, in insertion order)
  rootChildren,       \* this.root.children
  docInstructions,    \* processing instructions of the document before root
  attributesIsArray,  \* does root.attributes carry a `length` (builder version)
  now,                \* Date.now()
  ret                 \* the last call of the Sitemap API and what it returned

smVars == <<urls, hostname, cacheResetPeriod, cache, cacheSetTimestamp, xslUrl,
            xmlNs, rootAttributes, rootChildren, docInstructions,
            attributesIsArray, now, ret>>

VARIABLES
  ixPc,               \* "new", then "constructed" or "threw"
  ixThrown,           \* what the constructor threw ("" when nothing)
  ixHostname,         \* self.hostname
  sitemapName,        \* self.sitemapName
  sitemapSize,        \* self.sitemapSize
  ixXslUrl,           \* self.xslUrl
  sitemapId,          \* self.sitemapId
  sitemaps,           \* self.sitemaps
  targetFolder,       \* self.targetFolder
  ixUrls,             \* self.urls
  chunks,             \* self.chunks
  callback,           \* typeof self.callback
  ixGzip,             \* the parameter gzip, closed over by the listeners
  processesCount,     \* var processesCount
  streams,            \* the write streams, in creation order (index file last)
  callbackCalls,      \* the calls of self.callback, in order
  uncaught            \* the exception that ended the process ("" when none)

ixVars == <<ixPc, ixThrown, ixHostname, sitemapName, sitemapSize, ixXslUrl,
            sitemapId, sitemaps, targetFolder, ixUrls, chunks, callback,
            ixGzip, processesCount, streams, callbackCalls, uncaught>>

VARIABLES
  pending,            \* the scheduled tasks (process.nextTick, zlib.gzip)
  cbCalls,            \* the calls of the callbacks given to toXML and toGzip
  nextId              \* the number of callback-form calls made so far

asVars == <<pending, cbCalls, nextId>>

vars == <<smVars, ixVars, asVars>>

\* ------------------------------------------------------------- URL strings
Page1 == <<"p", "1">>
Page2 == <<"/", "p", "2">>
AbsUrl == <<"H", "t", "t", "p", "s", ":", "/", "/", "x">>
Host == <<"h", "t", "t", "p", ":", "/", "/", "h", "/">>
Xsl == <<"s", ".", "x", "s", "l">>

BareHost == <<"h", ".", "c">>

\* the url of a record that has no url field
NoUrl == <<"<undefined>">>

\* the img field of an entry: absent, a string, one {url} object or an array
\* of {url} objects; items are the urls, in order
NoImg == [shape |-> "none", items |-> <<>>]
Img(shape, items) == [shape |-> shape, items |-> items]

\* a url entry is a bare string or a record with a url field and, optionally,
\* img and links (an array of {url} objects, given by their urls)
Item(u, img, links) == [kind |-> "object", url |-> u, img |-> img, links |-> links]
StrEntry(u) == [kind |-> "string", url |-> u, img |-> NoImg, links |-> <<>>]
RecEntry(u) == Item(u, NoImg, <<>>)

Keys == {Page1, Page2}
Entries == {StrEntry(u) : u \in Keys} \cup {RecEntry(u) : u \in Keys}
DocEntries == {StrEntry(Page2), RecEntry(AbsUrl)}

\* ------------------------------------------------------------ reProto
Lower(c) ==
  CASE c = "H" -> "h"
    [] c = "T" -> "t"
    [] c = "P" -> "p"
    [] c = "S" -> "s"
    [] OTHER -> c

HasPrefix(s, p) == Len(s) >= Len(p) /\ SubSeq(s, 1, Len(p)) = p

\* reProto without the i flag
reProtoCaseSensitive(s) ==
  \/ HasPrefix(s, <<"h", "t", "t", "p", ":", "/", "/">>)
  \/ HasPrefix(s, <<"h", "t", "t", "p", "s", ":", "/", "/">>)

\* var reProto = /^https?:\/\//i;  reProto.test(s)
reProto(s) ==
  LET l == [i \in 1..Len(s) |-> Lower(s[i])]
  IN  \/ HasPrefix(l, <<"h", "t", "t", "p", ":", "/", "/">>)
      \/ HasPrefix(l, <<"h", "t", "t", "p", "s", ":", "/", "/">>)

\* ------------------------------------------------------------ url-join
RECURSIVE StripLeadingSlashes(_)
StripLeadingSlashes(s) ==
  IF s # <<>> /\ Head(s) = "/" THEN StripLeadingSlashes(Tail(s)) ELSE s

RECURSIVE StripTrailingSlashes(_)
StripTrailingSlashes(s) ==
  IF s # <<>> /\ s[Len(s)] = "/"
    THEN StripTrailingSlashes(SubSeq(s, 1, Len(s) - 1))
    ELSE s

\* urljoin(a, b): the parts are separated by exactly one slash; the trailing
\* slashes of the last part collapse to one
urljoin(a, b) ==
  LET first == StripTrailingSlashes(a)
      stripped == StripLeadingSlashes(b)
      last == IF stripped # <<>> /\ stripped[Len(stripped)] = "/"
                THEN Append(StripTrailingSlashes(stripped), "/")
                ELSE stripped
  IN  IF b = <<>> THEN a
      ELSE IF a = <<>> THEN b
      ELSE first \o <<"/">> \o last

\* ------------------------------------------------------------ xmlbuilder
Node(t, v) == [tag |-> t, val |-> v]

DefaultNamespaces ==
  <<"xmlns", "xmlns:news", "xmlns:xhtml", "xmlns:mobile", "xmlns:image",
    "xmlns:video">>

InSeq(x, s) == \E i \in 1..Len(s) : s[i] = x

\* root.att(name, value): attributes are keyed by name
att(attrs, name) == IF InSeq(name, attrs) THEN attrs ELSE Append(attrs, name)

RECURSIVE attAll(_, _)
attAll(attrs, names) ==
  IF names = <<>> THEN attrs ELSE attAll(att(attrs, Head(names)), Tail(names))

\* root.end(): the whole document, i.e. the declaration, the processing
\* instructions before the root, the root with its attributes, its children
rootEnd(instrs, attrs, children) ==
  <<Node("?xml", <<>>)>>
    \o [i \in 1..Len(instrs) |-> Node("?xml-stylesheet", instrs[i])]
    \o <<Node("urlset", attrs)>>
    \o children

\* ---------------------------------------------------------------- Sitemap

\* isCacheValid with > for >=
isCacheValidStrict ==
  /\ cacheResetPeriod # 0
  /\ cache # <<>>
  /\ cacheSetTimestamp # Undefined
  /\ cacheSetTimestamp + cacheResetPeriod > now

\* isCacheValid without the comparison of the timestamps
isCacheValidNoExpiry == cacheResetPeriod # 0 /\ cache # <<>>

\* Sitemap.prototype.isCacheValid
isCacheValid ==
  /\ cacheResetPeriod # 0
  /\ cache # <<>>
  /\ cacheSetTimestamp # Undefined
  /\ cacheSetTimestamp + cacheResetPeriod >= now

\* lines 199-205: the item of an entry, with the domain name inserted
smiUrl(h, elem) ==
  IF h # <<>> /\ ~reProto(elem.url) THEN urljoin(h, elem.url)
  ELSE elem.url

\* what building the item of an entry throws ("" when nothing): urljoin
\* rejects a url that is no string, SitemapItem an item without url
itemError(h, elem) ==
  IF elem.url # NoUrl THEN ""
  ELSE IF h # <<>> THEN "TypeError"
  ELSE "NoURLError"

\* lines 216-227: the hostname prepended to the urls of sub-records
joinAll(h, list) ==
  [i \in 1..Len(list) |->
     IF reProto(list[i]) THEN list[i] ELSE urljoin(h, list[i])]

\* lines 199-229: smi, the item handed to SitemapItem, and elem, the entry
\* of this.urls after the loop body (the img objects and the links of smi
\* are the entry's own objects; an img string is replaced in smi only)
normalize(h, elem) ==
  IF h = <<>>
    THEN [smi |-> [elem EXCEPT !.kind = "object"], elem |-> elem]
    ELSE LET img == IF elem.img.shape = "none" THEN NoImg
                    ELSE Img("array", joinAll(h, elem.img.items))
             links == joinAll(h, elem.links)
         IN  [smi |-> [kind |-> "object", url |-> smiUrl(h, elem),
                       img |-> img, links |-> links],
              elem |-> [elem EXCEPT
                          !.img = IF elem.img.shape \in {"object", "array"}
                                    THEN Img(elem.img.shape, img.items)
                                    ELSE elem.img,
                          !.links = links]]

\* new SitemapItem(smi).buildXML(): one <url> element with its <loc>, then
\* its images and its links
buildXML(smi) ==
  <<Node("url", smi.url)>>
    \o [i \in 1..Len(smi.img.items) |-> Node("image:loc", smi.img.items[i])]
    \o [i \in 1..Len(smi.links) |-> Node("xhtml:link", smi.links[i])]

\* lines 171-176: reset of the builder state
resetAttributes ==
  IF attributesIsArray /\ Len(rootAttributes) # 0 THEN <<>> ELSE rootAttributes

\* lines 177-184: the default namespaces unless xmlNs is given
declareNamespaces(ns, attrs) ==
  IF ns = <<>> THEN attAll(attrs, DefaultNamespaces) ELSE attrs

\* lines 186-188: root.instructionBefore('xml-stylesheet', ...)
instructionBefore(xsl, instrs) ==
  IF xsl # <<>> THEN Append(instrs, xsl) ELSE instrs

\* the children built from the last entry to the first
RECURSIVE buildChildrenReversed(_, _)
buildChildrenReversed(h, entries) ==
  IF entries = <<>> THEN <<>>
  ELSE buildChildrenReversed(h, Tail(entries))
         \o buildXML(normalize(h, Head(entries)).smi)

\* lines 196-232: the children built from the entries, in order
RECURSIVE buildChildren(_, _)
buildChildren(h, entries) ==
  IF entries = <<>> THEN <<>>
  ELSE buildXML(normalize(h, Head(entries)).smi)
         \o buildChildren(h, Tail(entries))

\* the index of the first entry whose item cannot be built (Len + 1: none)
firstError(h, entries) ==
  LET Bad == {i \in 1..Len(entries) : itemError(h, entries[i]) # ""}
  IN  IF Bad = {} THEN Len(entries) + 1
      ELSE CHOOSE i \in Bad : \A j \in Bad : i <= j

Call(op, key, n, out) ==
  [op |-> op, key |-> key, n |-> n, out |-> out, at |-> now, err |-> ""]

\* a call that throws err
Throw(op, err) ==
  [op |-> op, key |-> <<>>, n |-> 0, out |-> <<>>, at |-> now, err |-> err]

\* add that also empties the cache
addClearingCache(url) ==
  /\ urls' = Append(urls, url)
  /\ cache' = <<>>
  /\ ret' = Call("add", url.url, Len(urls) + 1, <<>>)
  /\ UNCHANGED <<ixVars, asVars, hostname, cacheResetPeriod,
                 cacheSetTimestamp, xslUrl, xmlNs, rootAttributes,
                 rootChildren, docInstructions, attributesIsArray, now>>

\* Sitemap.prototype.add
add(url) ==
  /\ urls' = Append(urls, url)
  /\ ret' = Call("add", url.url, Len(urls) + 1, <<>>)
  /\ UNCHANGED <<ixVars, asVars, hostname, cacheResetPeriod, cache, cacheSetTimestamp, xslUrl,
                 xmlNs, rootAttributes, rootChildren, docInstructions,
                 attributesIsArray, now>>

\* the find loop of del: the indices (from 0) of the entries with the key
indexToRemove(list, key) ==
  LET Matches == {i \in 1..Len(list) : list[i].url = key}
      RECURSIVE Asc(_, _)
      Asc(i, acc) ==
        IF i > Len(list) THEN acc
        ELSE Asc(i + 1, IF i \in Matches THEN Append(acc, i - 1) ELSE acc)
  IN  Asc(1, <<>>)

\* Array.prototype.splice(index, 1)
splice1(list, index) ==
  IF index >= Len(list) THEN list
  ELSE SubSeq(list, 1, index) \o SubSeq(list, index + 2, Len(list))

\* the delete loop of del: splice at each collected index, in order
RECURSIVE spliceAll(_, _)
spliceAll(list, indices) ==
  IF indices = <<>> THEN list
  ELSE spliceAll(splice1(list, Head(indices)), Tail(indices))

\* Sitemap.prototype.del
del(url) ==
  LET key == url.url
      index_to_remove == indexToRemove(urls, key)
  IN  /\ urls' = spliceAll(urls, index_to_remove)
      /\ ret' = Call("del", key, Len(index_to_remove), <<>>)
      /\ UNCHANGED <<ixVars, asVars, hostname, cacheResetPeriod, cache, cacheSetTimestamp,
                     xslUrl, xmlNs, rootAttributes, rootChildren,
                     docInstructions, attributesIsArray, now>>

\* Sitemap.prototype.clearCache
clearCache ==
  /\ cache' = <<>>
  /\ ret' = Call("clearCache", <<>>, 0, <<>>)
  /\ UNCHANGED <<ixVars, asVars, urls, hostname, cacheResetPeriod, cacheSetTimestamp, xslUrl,
                 xmlNs, rootAttributes, rootChildren, docInstructions,
                 attributesIsArray, now>>

\* the body of Sitemap.prototype.toString on the current state: the fields
\* it leaves behind, what it returns (out) or throws (err)
toStringResult ==
  LET attrs == declareNamespaces(xmlNs, resetAttributes)
      instrs == instructionBefore(xslUrl, docInstructions)
      k == firstError(hostname, urls)
      children == buildChildren(hostname, SubSeq(urls, 1, k - 1))
      touched == [i \in 1..Len(urls) |->
                    IF i < k THEN normalize(hostname, urls[i]).elem
                    ELSE urls[i]]
      xml == rootEnd(instrs, attrs, children)
      base == [attrs |-> attrs, instrs |-> instrs, children |-> <<>>,
               urls |-> urls, cache |-> cache, at |-> cacheSetTimestamp,
               out |-> <<>>, err |-> ""]
  IN  IF isCacheValid
        THEN [base EXCEPT !.out = cache]
      ELSE IF k <= Len(urls)
        THEN [base EXCEPT !.children = children, !.urls = touched,
                          !.err = itemError(hostname, urls[k])]
      ELSE [base EXCEPT !.children = children, !.urls = touched,
                        !.cache = xml, !.at = now, !.out = xml]

\* the fields of the Sitemap after a run of toString with result r
toStringDone(r) ==
  /\ Len(r.instrs) <= MaxInstructions
  /\ \A i \in 1..Len(r.urls) :
       /\ \A j \in 1..Len(r.urls[i].img.items) :
            Len(r.urls[i].img.items[j]) <= MaxUrlLen
       /\ \A j \in 1..Len(r.urls[i].links) :
            Len(r.urls[i].links[j]) <= MaxUrlLen
  /\ rootAttributes' = r.attrs
  /\ docInstructions' = r.instrs
  /\ rootChildren' = r.children
  /\ urls' = r.urls
  /\ cache' = r.cache
  /\ cacheSetTimestamp' = r.at
  /\ UNCHANGED <<ixVars, hostname, cacheResetPeriod, xslUrl, xmlNs,
                 attributesIsArray, now>>

\* Sitemap.prototype.toString
toString ==
  LET r == toStringResult
  IN  /\ toStringDone(r)
      /\ ret' = IF r.err # "" THEN Throw("toString", r.err)
                ELSE Call("toString", <<>>, 0, r.out)
      /\ UNCHANGED asVars

\* a scheduled task: the function given to process.nextTick by toXML, or a
\* compression started by zlib.gzip with its input
Task(id, api, xml) == [id |-> id, api |-> api, xml |-> xml]

\* a call callback(err, out) made for the callback-form call id
CbCall(id, api, err, out) == [id |-> id, api |-> api, err |-> err, out |-> out]

RemoveAt(list, i) == SubSeq(list, 1, i - 1) \o SubSeq(list, i + 1, Len(list))

\* Sitemap.prototype.toXML(callback), lines 153-160: the render is left to
\* the next tick
toXMLCallback ==
  /\ nextId < MaxAsync
  /\ nextId' = nextId + 1
  /\ pending' = Append(pending, Task(nextId + 1, "toXML", <<>>))
  /\ ret' = Call("toXML(callback)", <<>>, nextId + 1, <<>>)
  /\ UNCHANGED <<ixVars, cbCalls, urls, hostname, cacheResetPeriod, cache,
                 cacheSetTimestamp, xslUrl, xmlNs, rootAttributes,
                 rootChildren, docInstructions, attributesIsArray, now>>

\* lines 155-159: try { return callback(null, self.toString()) }
\* catch (err) { return callback(err) }; throws tells whether the callback
\* throws when it is called with the xml
tickCalls(id, r, throws) ==
  IF r.err # "" THEN <<CbCall(id, "toXML", r.err, <<>>)>>
  ELSE IF throws
    THEN <<CbCall(id, "toXML", "null", r.out),
           CbCall(id, "toXML", "thrown by callback", <<>>)>>
  ELSE <<CbCall(id, "toXML", "null", r.out)>>

\* the next tick: the oldest function given to process.nextTick runs
NextTick(throws) ==
  LET Ticks == {i \in 1..Len(pending) : pending[i].api = "toXML"}
      i == CHOOSE j \in Ticks : \A l \in Ticks : j <= l
      r == toStringResult
  IN  /\ Ticks # {}
      /\ toStringDone(r)
      /\ cbCalls' = cbCalls \o tickCalls(pending[i].id, r, throws)
      /\ pending' = RemoveAt(pending, i)
      /\ ret' = IF r.err # "" THEN Throw("toString", r.err)
                ELSE Call("toString", <<>>, 0, r.out)
      /\ UNCHANGED nextId

\* Sitemap.prototype.toGzip(callback), line 241:
\* zlib.gzip(this.toString(), callback)
toGzipCallback ==
  LET r == toStringResult
  IN  /\ nextId < MaxAsync
      /\ nextId' = nextId + 1
      /\ toStringDone(r)
      /\ IF r.err # ""
           THEN /\ ret' = Throw("toGzip(callback)", r.err)
                /\ UNCHANGED pending
           ELSE /\ ret' = Call("toGzip(callback)", <<>>, nextId + 1, <<>>)
                /\ pending' = Append(pending, Task(nextId + 1, "gzip", r.out))
      /\ UNCHANGED cbCalls

\* the clock advances between calls
Tick ==
  /\ now < MaxTime
  /\ now' = now + 1
  /\ UNCHANGED <<ixVars, asVars, urls, hostname, cacheResetPeriod, cache, cacheSetTimestamp,
                 xslUrl, xmlNs, rootAttributes, rootChildren, docInstructions,
                 attributesIsArray, ret>>

\* function Sitemap(urls, hostname, cacheTime, xslUrl, xmlNs)
Sitemap(u, h, cacheTime, xsl, ns, isArray) ==
  /\ urls = u
  /\ hostname = h
  /\ cacheResetPeriod = cacheTime
  /\ cache = <<>>
  /\ cacheSetTimestamp = Undefined
  /\ xslUrl = xsl
  /\ xmlNs = ns
  /\ rootAttributes = attAll(<<>>, ns)
  /\ rootChildren = <<>>
  /\ docInstructions = <<>>
  /\ attributesIsArray = isArray
  /\ now = 0
  /\ ret = Call("new", <<>>, 0, <<>>)
  /\ pending = <<>>
  /\ cbCalls = <<>>
  /\ nextId = 0

\* ----------------------------------------------------------- SitemapIndex
ErrorsModule == "require('./errors')"

\* new err.UndefinedTargetFolder(), for what the name err is bound to there
newUndefinedTargetFolder(err) ==
  IF err = ErrorsModule THEN "UndefinedTargetFolder" ELSE "TypeError"

\* lines 359-361: what the try block throws ("" when it completes)
tryStat(folder) ==
  IF folder = "missing" THEN "ENOENT"
  ELSE IF folder # "directory" THEN newUndefinedTargetFolder(ErrorsModule)
  ELSE ""

\* lines 362-364: catch (err) { throw new err.UndefinedTargetFolder() }
catchStat(err) == newUndefinedTargetFolder(err)

\* chunk that drops a last group shorter than size
RECURSIVE chunkFullOnly(_, _)
chunkFullOnly(array, size) ==
  IF size < 1 \/ Len(array) < size THEN <<>>
  ELSE <<SubSeq(array, 1, size)>>
         \o chunkFullOnly(SubSeq(array, size + 1, Len(array)), size)

\* lodash chunk(array, size)
RECURSIVE chunk(_, _)
chunk(array, size) ==
  IF Len(array) = 0 \/ size < 1 THEN <<>>
  ELSE IF Len(array) <= size THEN <<array>>
  ELSE <<SubSeq(array, 1, size)>>
         \o chunk(SubSeq(array, size + 1, Len(array)), size)

\* the counter without the index file
chunksOnlyCount(cs) == Len(cs)

\* line 378
initialProcessesCount(cs) == Len(cs) + 1

\* the extension without the gzip suffix
extensionXmlOnly(gzip) == ".xml"

\* lines 381-382
extension(gzip) == IF gzip THEN ".xml.gz" ELSE ".xml"
filename(name, id, gzip) == name \o "-" \o ToString(id) \o extension(gzip)

\* createSitemap({hostname, cacheTime: undefined, urls, xslUrl}).toString()
\* on the new document
chunkToString(h, list, xsl) ==
  rootEnd(instructionBefore(xsl, <<>>), declareNamespaces(<<>>, <<>>),
          buildChildren(h, list))

\* zlib.gzipSync(xml)
gzipSync(xml) == <<Node("gzip", <<>>)>> \o xml

\* the callback of zlib.gzip(xml, callback): the compression of task i is done
GzipDone(i) ==
  /\ i \in 1..Len(pending)
  /\ pending[i].api = "gzip"
  /\ cbCalls' = Append(cbCalls, CbCall(pending[i].id, "toGzip", "null",
                                        gzipSync(pending[i].xml)))
  /\ pending' = RemoveAt(pending, i)
  /\ UNCHANGED <<ixVars, nextId, smVars>>

\* the filename without the hostname
sitemapUrlBare(h, file) == <<file>>

\* hostname + '/' + sitemap
sitemapUrl(h, file) ==
  (IF h = <<>> THEN <<"undefined">> ELSE h) \o <<"/">> \o <<file>>

\* buildSitemapIndex({urls, xslUrl, xmlNs: undefined})
buildSitemapIndex(locs, xsl) ==
  <<Node("?xml", <<>>)>>
    \o (IF xsl # <<>> THEN <<Node("?xml-stylesheet", xsl)>> ELSE <<>>)
    \o <<Node("sitemapindex",
              <<"xmlns", "xmlns:mobile", "xmlns:image", "xmlns:video">>)>>
    \o [i \in 1..Len(locs) |-> Node("sitemap", locs[i])]

\* a listener that closes over a Sitemap of the first entry of the chunk only
chunkListenerFirst(list) ==
  [isChunk |-> TRUE, sitemap |-> SubSeq(list, 1, 1), xmlString |-> <<>>]

\* lines 394-400: the 'open' listener of a chunk file, which closes over the
\* Sitemap made from the chunk
chunkListener(list) ==
  [isChunk |-> TRUE, sitemap |-> list, xmlString |-> <<>>]

\* lines 412-419: the 'open' listener of the index file, which closes over
\* xmlString
indexListener(xml) ==
  [isChunk |-> FALSE, sitemap |-> <<>>, xmlString |-> xml]

\* fs.createWriteStream(path) and stream.once('open', listener)
createWriteStream(path, listener) ==
  [path |-> path, status |-> "created", listener |-> listener,
   written |-> <<>>]

\* the state before new SitemapIndex(...)
IndexNew ==
  /\ ixPc = "new"
  /\ ixThrown = ""
  /\ ixHostname = <<>>
  /\ sitemapName = ""
  /\ sitemapSize = 0
  /\ ixXslUrl = <<>>
  /\ sitemapId = 0
  /\ sitemaps = <<>>
  /\ targetFolder = ""
  /\ ixUrls = <<>>
  /\ chunks = <<>>
  /\ callback = "undefined"
  /\ ixGzip = FALSE
  /\ processesCount = 0
  /\ streams = <<>>
  /\ callbackCalls = <<>>
  /\ uncaught = ""

\* function SitemapIndex(urls, targetFolder, hostname, cacheTime, sitemapName,
\*                       sitemapSize, xslUrl, gzip, callback)
\* folder is what fs.statSync finds at targetFolder; name "" is undefined
SitemapIndex(u, folder, h, name, size, xsl, gzip, cb) ==
  LET thrown == IF tryStat(folder) = "" THEN "" ELSE catchStat(tryStat(folder))
      cs == chunk(u, size)
      names == [i \in 1..Len(cs) |->
                  filename(sitemapName', i - 1, gzip)]
      docs == [i \in 1..Len(cs) |->
                 createWriteStream(folder \o "/" \o names[i],
                                   chunkListener(cs[i]))]
      sitemapUrls == [i \in 1..Len(names) |-> sitemapUrl(h, names[i])]
      xmlString == buildSitemapIndex(sitemapUrls, xsl)
  IN  /\ ixPc = "new"
      /\ ixHostname' = h
      /\ sitemapName' = IF name = "" THEN "sitemap" ELSE name
      /\ sitemapSize' = size
      /\ ixXslUrl' = xsl
      /\ ixGzip' = gzip
      /\ IF thrown # ""
           THEN /\ ixPc' = "threw"
                /\ ixThrown' = thrown
                /\ targetFolder' = "."
                /\ UNCHANGED <<sitemapId, sitemaps, ixUrls, chunks, callback,
                               processesCount, streams, callbackCalls>>
           ELSE /\ ixPc' = "constructed"
                /\ ixThrown' = ""
                /\ targetFolder' = folder
                /\ ixUrls' = u
                /\ chunks' = cs
                /\ callback' = cb
                /\ sitemapId' = Len(cs)
                /\ sitemaps' = names
                /\ processesCount' = initialProcessesCount(cs)
                /\ streams' =
                     Append(docs,
                            createWriteStream(
                              folder \o "/" \o sitemapName' \o "-index.xml",
                              indexListener(xmlString)))
                /\ UNCHANGED callbackCalls
      /\ UNCHANGED <<uncaught, smVars, asVars>>

\* lines 397-400 and 416-419: the end of an 'open' listener
completed(count) ==
  IF count = 0 /\ callback = "function"
    THEN Append(callbackCalls, [err |-> "null", result |-> "true"])
    ELSE callbackCalls

\* what the listener passes to stream.write: sitemap.toGzip() or
\* sitemap.toString() of the chunk's Sitemap, or xmlString
listenerData(l) ==
  IF l.isChunk
    THEN LET xml == chunkToString(ixHostname, l.sitemap, ixXslUrl)
         IN  IF ixGzip THEN gzipSync(xml) ELSE xml
    ELSE l.xmlString

\* what the render in the listener throws ("" when nothing)
listenerError(l) ==
  LET k == firstError(ixHostname, l.sitemap)
  IN  IF l.isChunk /\ k <= Len(l.sitemap)
        THEN itemError(ixHostname, l.sitemap[k])
        ELSE ""

\* stream.once('open', ...): the listener of stream i renders and writes the
\* data, ends the stream and counts the write; a render that throws leaves
\* the listener before stream.write, and nothing catches the exception
StreamOpen(i) ==
  /\ ixPc = "constructed" /\ uncaught = ""
  /\ i \in 1..Len(streams)
  /\ streams[i].status = "created"
  /\ IF listenerError(streams[i].listener) # ""
       THEN /\ streams' = [streams EXCEPT ![i].status = "listener threw"]
            /\ uncaught' = listenerError(streams[i].listener)
            /\ UNCHANGED <<processesCount, callbackCalls>>
       ELSE /\ streams' =
                 [streams EXCEPT ![i].status = "ended",
                                 ![i].written = listenerData(streams[i].listener)]
            /\ processesCount' = processesCount - 1
            /\ callbackCalls' = completed(processesCount - 1)
            /\ UNCHANGED uncaught
  /\ UNCHANGED <<ixPc, ixThrown, ixHostname, sitemapName, sitemapSize,
                 ixXslUrl, sitemapId, sitemaps, targetFolder, ixUrls, chunks,
                 callback, ixGzip, smVars, asVars>>

\* the file cannot be opened: the stream emits 'error', which has no
\* listener, so the event is thrown and ends the process
StreamOpenError(i) ==
  /\ ixPc = "constructed" /\ uncaught = ""
  /\ i \in 1..Len(streams)
  /\ streams[i].status = "created"
  /\ streams' = [streams EXCEPT ![i].status = "open failed"]
  /\ uncaught' = "Unhandled 'error' event"
  /\ UNCHANGED <<ixPc, ixThrown, ixHostname, sitemapName, sitemapSize,
                 ixXslUrl, sitemapId, sitemaps, targetFolder, ixUrls, chunks,
                 callback, ixGzip, processesCount, callbackCalls, smVars,
                 asVars>>

\* the data of an ended stream reaches the file: 'finish'
StreamFinish(i) ==
  /\ ixPc = "constructed" /\ uncaught = ""
  /\ i \in 1..Len(streams)
  /\ streams[i].status = "ended"
  /\ streams' = [streams EXCEPT ![i].status = "finished"]
  /\ UNCHANGED <<ixPc, ixThrown, ixHostname, sitemapName, sitemapSize,
                 ixXslUrl, sitemapId, sitemaps, targetFolder, ixUrls, chunks,
                 callback, ixGzip, processesCount, callbackCalls, uncaught,
                 smVars, asVars>>

\* the write of an ended stream fails: 'error' without a listener
StreamWriteError(i) ==
  /\ ixPc = "constructed" /\ uncaught = ""
  /\ i \in 1..Len(streams)
  /\ streams[i].status = "ended"
  /\ streams' = [streams EXCEPT ![i].status = "write failed"]
  /\ uncaught' = "Unhandled 'error' event"
  /\ UNCHANGED <<ixPc, ixThrown, ixHostname, sitemapName, sitemapSize,
                 ixXslUrl, sitemapId, sitemaps, targetFolder, ixUrls, chunks,
                 callback, ixGzip, processesCount, callbackCalls, smVars,
                 asVars>>

IndexEntries == {StrEntry(Page1), RecEntry(Page2), RecEntry(NoUrl)}

RECURSIVE SeqsUpTo(_, _)
SeqsUpTo(S, n) ==
  IF n = 0 THEN {<<>>}
  ELSE SeqsUpTo(S, n - 1)
         \cup {Append(q, x) : q \in {r \in SeqsUpTo(S, n - 1) : Len(r) = n - 1},
                               x \in S}

IxConf(h, name, xsl, gzip, cb) ==
  [hostname |-> h, name |-> name, xslUrl |-> xsl, gzip |-> gzip, callback |-> cb]

IxConfs ==
  { IxConf(Host, "", <<>>, FALSE, "function"),
    IxConf(Host, "sm", Xsl, TRUE, "function"),
    IxConf(<<>>, "", <<>>, FALSE, "undefined") }

InitIndex == IndexNew /\ Sitemap(<<>>, <<>>, 0, <<>>, <<>>, FALSE)

NextIndex ==
  \/ \E u \in SeqsUpTo(IndexEntries, MaxIndexUrls),
        folder \in {"directory", "file", "missing"},
        size \in 0..MaxSitemapSize, c \in IxConfs :
       SitemapIndex(u, folder, c.hostname, c.name, size, c.xslUrl, c.gzip,
                    c.callback)
  \/ \E i \in 1..(MaxIndexUrls + 2) : StreamOpen(i)
  \/ \E i \in 1..(MaxIndexUrls + 2) : StreamOpenError(i)
  \/ \E i \in 1..(MaxIndexUrls + 2) : StreamFinish(i)
  \/ \E i \in 1..(MaxIndexUrls + 2) : StreamWriteError(i)

SpecIndex == InitIndex /\ [][NextIndex]_vars

\* the streams whose 'open' listener has run (their write was counted)
Counted ==
  {i \in 1..Len(streams) :
     streams[i].status \in {"ended", "finished", "write failed"}}

Failed ==
  {i \in 1..Len(streams) :
     streams[i].status \in {"open failed", "write failed"}}

\* C3: the completion callback is not invoked while a chunk file or the
\* index file is still to be written: once it was invoked, every one of
\* the chunks + 1 writes has completed.
C3_CallbackAfterAllWrites ==
  callbackCalls # <<>> =>
    \A i \in 1..Len(streams) : streams[i].status = "finished"

\* C4: the callback is invoked at most once; the counter starts at
\* chunks + 1, goes down by one for each write and never below zero.
C4_CounterAndSingleCallback ==
  /\ Len(callbackCalls) <= 1
  /\ processesCount >= 0
  /\ ixPc = "constructed" =>
       /\ Len(streams) = Len(chunks) + 1
       /\ processesCount = Len(chunks) + 1 - Cardinality(Counted)
       /\ callbackCalls # <<>> => processesCount = 0

C4_Witness ==
  /\ Len(callbackCalls) = 1
  /\ Len(chunks) >= 2
  /\ processesCount = 0

\* C5: when the write of a chunk file or of the index file fails (the
\* failure to open the stream included), the callback receives the failure
\* as its error argument and callback(null, true) is not reported.
C5_FailureReachesCallback ==
  (callback = "function" /\ Failed # {}) =>
    /\ \E k \in 1..Len(callbackCalls) : callbackCalls[k].err # "null"
    /\ \A k \in 1..Len(callbackCalls) : callbackCalls[k].err # "null"

Ceil(n, d) == (n + d - 1) \div d

RECURSIVE Flatten(_)
Flatten(ss) == IF ss = <<>> THEN <<>> ELSE Head(ss) \o Flatten(Tail(ss))

\* C6: for N urls and a positive partition size there are exactly
\* ceil(N / size) chunks, each of at most size entries and all but the last
\* of exactly size entries; no urls, no chunks; the chunks concatenated in
\* order are the url list.
C6_Partition ==
  (ixPc = "constructed" /\ sitemapSize > 0) =>
    /\ Len(chunks) = Ceil(Len(ixUrls), sitemapSize)
    /\ \A i \in 1..Len(chunks) :
         /\ Len(chunks[i]) >= 1
         /\ Len(chunks[i]) <= sitemapSize
         /\ i < Len(chunks) => Len(chunks[i]) = sitemapSize
    /\ ixUrls = <<>> => chunks = <<>>
    /\ Flatten(chunks) = ixUrls

C6_Witness ==
  /\ ixPc = "constructed"
  /\ sitemapSize = 2
  /\ Len(ixUrls) = 3
  /\ Len(chunks) = 2
  /\ Len(chunks[2]) = 1

\* C10: a targetFolder that does not exist or is not a directory makes the
\* constructor throw UndefinedTargetFolder, before any chunk is computed,
\* any stream created or the callback invoked.
C10_InvalidTargetFolder ==
  ixPc = "threw" =>
    /\ ixThrown = "UndefinedTargetFolder"
    /\ chunks = <<>>
    /\ streams = <<>>
    /\ callbackCalls = <<>>

\* --- the entry list under add and del
InitDel == IndexNew /\ Sitemap(<<>>, <<>>, 0, <<>>, <<>>, FALSE)

NextDel ==
  \/ Len(urls) < MaxUrls /\ \E e \in Entries : add(e)
  \/ \E e \in Entries : del(e)

SpecDel == InitDel /\ [][NextDel]_vars

\* the entries of a list whose url is not the key, in order
RECURSIVE NonMatching(_, _)
NonMatching(list, key) ==
  IF list = <<>> THEN <<>>
  ELSE IF Head(list).url = key THEN NonMatching(Tail(list), key)
  ELSE <<Head(list)>> \o NonMatching(Tail(list), key)

MatchCount(list, key) == Cardinality({i \in 1..Len(list) : list[i].url = key})

\* C1: del(key) removes every entry whose url is the key, and returns the
\* number of such entries that were present before the call.
C1_DelRemovesAllMatches ==
  [][\A e \in Entries :
       del(e) => /\ MatchCount(urls', e.url) = 0
                 /\ ret'.n = MatchCount(urls, e.url)]_vars

\* C2: del(key) leaves the entries whose url differs from the key exactly as
\* they were, in the same relative order.
C2_DelKeepsNonMatching ==
  [][\A e \in Entries :
       del(e) => NonMatching(urls', e.url) = NonMatching(urls, e.url)]_vars

\* --- items with images and links, rendered with and without hostname
ItemEntries ==
  { StrEntry(Page1),
    Item(Page2, Img("object", <<Page1>>), <<Page2, AbsUrl>>),
    Item(AbsUrl, Img("string", <<Page2>>), <<>>),
    Item(Page1, Img("array", <<AbsUrl, Page2>>), <<>>),
    RecEntry(NoUrl) }

InitItems ==
  /\ IndexNew
  /\ \E h \in {<<>>, Host, BareHost} : Sitemap(<<>>, h, 0, <<>>, <<>>, FALSE)

NextItems ==
  \/ Len(urls) < MaxItemUrls /\ \E e \in ItemEntries : add(e)
  \/ toString

SpecItems == InitItems /\ [][NextItems]_vars

\* s begins with a scheme, http:// or https://, in any case
IsAbsolute(s) ==
  /\ Len(s) >= 7
  /\ s[1] \in {"h", "H"} /\ s[2] \in {"t", "T"} /\ s[3] \in {"t", "T"}
  /\ s[4] \in {"p", "P"}
  /\ \/ SubSeq(s, 5, 7) = <<":", "/", "/">>
     \/ Len(s) >= 8 /\ s[5] \in {"s", "S"}
                    /\ SubSeq(s, 6, 8) = <<":", "/", "/">>

\* the urls a document carries (loc, image locs, link hrefs), in order
RECURSIVE UrlFields(_)
UrlFields(xml) ==
  IF xml = <<>> THEN <<>>
  ELSE IF Head(xml).tag \in {"url", "image:loc", "xhtml:link"}
    THEN <<Head(xml).val>> \o UrlFields(Tail(xml))
  ELSE UrlFields(Tail(xml))

\* the urls of the entries as they stand (url, img urls, link urls), in order
RECURSIVE RawFields(_)
RawFields(entries) ==
  IF entries = <<>> THEN <<>>
  ELSE <<Head(entries).url>> \o Head(entries).img.items
         \o Head(entries).links \o RawFields(Tail(entries))

\* C12: a render with a hostname leaves the entries of the Sitemap as they
\* were: the url of every entry and the urls of its img and links
\* sub-records are the same after the render as before.  (Stated for the
\* hostnames that begin with http:// or https://.)
C12_RenderKeepsEntries ==
  [][(toString /\ IsAbsolute(hostname)) =>
       RawFields(urls') = RawFields(urls)]_vars

\* C13, as claimed: with a hostname, every url of every serialized entry
\* (url, image urls, link urls) is absolute after normalization; one that
\* matched ^https?:// is as it was, a relative one is the join of hostname
\* and the relative path.
C13_NormalizedAbsolute ==
  [][(toString /\ hostname # <<>> /\ ret'.err = "") =>
       LET out == UrlFields(ret'.out)
           raw == RawFields(urls)
       IN  /\ Len(out) = Len(raw)
           /\ \A i \in 1..Len(out) :
                /\ IsAbsolute(out[i])
                /\ IsAbsolute(raw[i]) => out[i] = raw[i]
                /\ ~IsAbsolute(raw[i]) => out[i] = urljoin(hostname, raw[i])]_vars

\* C13, amended: the same, for a hostname that itself begins with http://
\* or https://.
C13_NormalizedAbsoluteUnderAbsoluteHost ==
  [][(toString /\ IsAbsolute(hostname) /\ ret'.err = "") =>
       LET out == UrlFields(ret'.out)
           raw == RawFields(urls)
       IN  /\ Len(out) = Len(raw)
           /\ \A i \in 1..Len(out) :
                /\ IsAbsolute(out[i])
                /\ IsAbsolute(raw[i]) => out[i] = raw[i]
                /\ ~IsAbsolute(raw[i]) => out[i] = urljoin(hostname, raw[i])]_vars

\* a document rendered under http://h/ whose entry had an absolute url, a
\* relative image and relative and absolute links
C13_Witness ==
  /\ ret.op = "toString" /\ ret.err = ""
  /\ hostname = Host
  /\ \E i \in 1..Len(ret.out) :
       /\ ret.out[i].tag = "image:loc"
       /\ ret.out[i].val = <<"h", "t", "t", "p", ":", "/", "/", "h", "/", "p", "2">>
  /\ \E i \in 1..Len(ret.out) :
       ret.out[i].tag = "xhtml:link" /\ ret.out[i].val = AbsUrl
  /\ \E i \in 1..Len(ret.out) :
       ret.out[i].tag = "url" /\ ret.out[i].val = AbsUrl

\* --- the callback forms of the API, over entries with and without url
AsyncEntries == {StrEntry(Page1), RecEntry(Page2), RecEntry(NoUrl)}

InitAsync ==
  /\ IndexNew
  /\ \E h \in {<<>>, Host} : Sitemap(<<>>, h, 0, <<>>, <<>>, FALSE)

NextAsync ==
  \/ Len(urls) < MaxItemUrls /\ \E e \in AsyncEntries : add(e)
  \/ toString
  \/ toXMLCallback
  \/ \E throws \in BOOLEAN : NextTick(throws)
  \/ toGzipCallback
  \/ \E i \in 1..MaxAsync : GzipDone(i)

SpecAsync == InitAsync /\ [][NextAsync]_vars

\* C11: the callback forms toXML(callback) and toGzip(callback) never
\* raise a failure of the render into the caller; they pass it to the
\* callback as its error argument.
C11_CallbackFormsNeverRaise ==
  /\ ret.op \in {"toXML(callback)", "toGzip(callback)"} => ret.err = ""
  /\ \A k \in 1..Len(cbCalls) : cbCalls[k].err # "null" => cbCalls[k].out = <<>>

\* C17: a call toXML(callback) never invokes its callback more than once,
\* whatever the callback does: never with (null, xml) and with an error
\* both.
C17_CallbackOnce ==
  \A id \in 1..nextId :
    LET Mine == {k \in 1..Len(cbCalls) :
                   cbCalls[k].id = id /\ cbCalls[k].api = "toXML"}
    IN  Cardinality(Mine) <= 1

\* --- one document under add, del, clearCache, render and the clock
Conf(h, cacheTime, xsl, ns, isArray) ==
  [hostname |-> h, cacheTime |-> cacheTime, xslUrl |-> xsl, xmlNs |-> ns,
   isArray |-> isArray]

Confs ==
  { Conf(<<>>, 0, <<>>, <<>>, FALSE),
    Conf(Host, 0, <<>>, <<>>, TRUE),
    Conf(Host, 1, <<>>, <<>>, FALSE),
    Conf(<<>>, 0, Xsl, <<>>, FALSE),
    Conf(Host, 1, Xsl, <<"xmlns">>, TRUE),
    Conf(<<>>, 0, <<>>, <<"xmlns">>, FALSE) }

Init ==
  /\ IndexNew
  /\ \E c \in Confs :
       Sitemap(<<>>, c.hostname, c.cacheTime, c.xslUrl, c.xmlNs, c.isArray)

Next ==
  \/ Len(urls) < MaxDocUrls /\ \E e \in DocEntries : add(e)
  \/ \E e \in DocEntries : del(e)
  \/ clearCache
  \/ toString
  \/ Tick

Spec == Init /\ [][Next]_vars

\* the <loc> each current entry renders to
ExpectedLocs == [i \in 1..Len(urls) |-> smiUrl(hostname, urls[i])]

\* the <loc> of the <url> blocks of a document, in order
RECURSIVE Locs(_)
Locs(xml) ==
  IF xml = <<>> THEN <<>>
  ELSE IF Head(xml).tag = "url" THEN <<Head(xml).val>> \o Locs(Tail(xml))
  ELSE Locs(Tail(xml))

\* C7, as claimed: with cacheTTL > 0, two renders within cacheTTL of each
\* other with no add, del or clearCache between them return the same output.
\* (Stated for the documents without a stylesheet, whose output does not
\* depend on how many renders came before.)
C7_RendersWithinTTLAgree ==
  [][(/\ toString
      /\ ret.op = "toString"
      /\ xslUrl = <<>>
      /\ cacheResetPeriod > 0
      /\ now - ret.at <= cacheResetPeriod) => ret'.out = ret.out]_vars

\* C7, amended: with cacheTTL > 0, two renders with no add, del or
\* clearCache between them return the same output when the later one is no
\* later than cacheSetTimestamp + cacheTTL.
C7_RendersWithinTTLOfCacheAgree ==
  [][(/\ toString
      /\ ret.op = "toString"
      /\ cacheResetPeriod > 0
      /\ now <= cacheSetTimestamp + cacheResetPeriod) => ret'.out = ret.out]_vars

\* a render served from a cache that was filled earlier, over entries that
\* no longer render to it
C7_Witness ==
  /\ ret.op = "toString"
  /\ cacheResetPeriod > 0
  /\ ret.at > cacheSetTimestamp
  /\ ret.out = cache
  /\ Locs(cache) # ExpectedLocs

\* C8: a render uses the cache only when cacheTTL > 0, a cached output is
\* set and now <= cachedAt + cacheTTL; every other render (after
\* clearCache, after the TTL, with cacheTTL = 0) serializes the current
\* entries, one <url> block each, stores the result as the cache with the
\* current timestamp and returns it.
C8_CacheUse ==
  [][toString =>
       IF /\ cacheResetPeriod > 0
          /\ cache # <<>>
          /\ now <= cacheSetTimestamp + cacheResetPeriod
         THEN /\ ret'.out = cache
              /\ cache' = cache
              /\ cacheSetTimestamp' = cacheSetTimestamp
         ELSE /\ Len(Locs(ret'.out)) = Len(urls)
              /\ \A i \in 1..Len(urls) :
                   Locs(ret'.out)[i] = smiUrl(hostname, urls[i])
              /\ cache' = ret'.out
              /\ cacheSetTimestamp' = now]_vars

\* a second render that had to serialize again, over a changed entry list
C8_Witness ==
  /\ ret.op = "toString"
  /\ cacheResetPeriod > 0
  /\ Len(docInstructions) >= 2
  /\ cacheSetTimestamp = now
  /\ now > 0
  /\ ret.out = cache
  /\ Len(urls) = 2

\* C9: with the cache disabled, two renders in a row of an unchanged
\* Sitemap return the same XML, and no instruction accumulates before the
\* root.
C9_RenderIdempotent ==
  [][(/\ toString
      /\ ret.op = "toString"
      /\ cacheResetPeriod = 0) =>
        /\ ret'.out = ret.out
        /\ Len(docInstructions') <= 1]_vars

\* C15: with the cache disabled, add appends its entry at the end, whatever
\* the list holds, and returns the new number of entries; a render emits
\* one <url> block per entry of the Sitemap, in the order of the list.
C15_RenderFollowsEntries ==
  [][/\ \A e \in DocEntries :
          add(e) => /\ urls' = urls \o <<e>>
                    /\ ret'.n = Len(urls) + 1
     /\ (toString /\ cacheResetPeriod = 0) =>
          /\ Len(Locs(ret'.out)) = Len(urls)
          /\ Locs(ret'.out) = ExpectedLocs]_vars

\* add("/p2"), add({url: "Https://x"}) under http://h/ rendered as
\* http://h/p2 then Https://x
C15_Witness ==
  /\ ret.op = "toString"
  /\ cacheResetPeriod = 0
  /\ hostname = Host
  /\ urls = <<StrEntry(Page2), RecEntry(AbsUrl)>>
  /\ Locs(ret.out) =
       << <<"h", "t", "t", "p", ":", "/", "/", "h", "/", "p", "2">>, AbsUrl >>

\* C20: add and del leave cache and cacheSetTimestamp as they are, and a
\* render while the cache is fresh returns the cached string without
\* touching the entries or building any child.
C20_CacheOutlivesAddDel ==
  [][/\ \A e \in DocEntries :
          (add(e) \/ del(e)) =>
            /\ cache' = cache
            /\ cacheSetTimestamp' = cacheSetTimestamp
     /\ (/\ toString
         /\ cacheResetPeriod > 0
         /\ cache # <<>>
         /\ now <= cacheSetTimestamp + cacheResetPeriod) =>
          /\ ret'.out = cache
          /\ cache' = cache
          /\ urls' = urls
          /\ rootChildren' = <<>>]_vars

\* a render that returned a cached document with fewer <url> blocks than the
\* Sitemap has entries
C20_Witness ==
  /\ ret.op = "toString"
  /\ cacheResetPeriod > 0
  /\ ret.out = cache
  /\ Len(Locs(ret.out)) < Len(urls)

\* --- the files of a SitemapIndex

\* C14: after the construction of a SitemapIndex, sitemaps holds exactly one
\* filename per chunk, the filenames are pairwise distinct, and the i-th
\* (from 0) is the name prefix, "-", i and ".xml" (".xml.gz" with gzip); the
\* prefix is "sitemap" when no name was given.
C14_Filenames ==
  ixPc = "constructed" =>
    /\ Len(sitemaps) = Len(chunks)
    /\ sitemapId = Len(chunks)
    /\ sitemapName \in {"sitemap", "sm"}
    /\ \A i \in 1..Len(sitemaps) :
         /\ sitemaps[i] = sitemapName \o "-" \o ToString(i - 1)
                            \o (IF ixGzip THEN ".xml.gz" ELSE ".xml")
         /\ \A j \in 1..Len(sitemaps) : j # i => sitemaps[j] # sitemaps[i]
    /\ (sitemapName = "sitemap" /\ ~ixGzip /\ Len(sitemaps) >= 2) =>
         sitemaps[2] = "sitemap-1.xml"

C14_Witness ==
  /\ ixPc = "constructed"
  /\ ixGzip
  /\ sitemaps = <<"sm-0.xml.gz", "sm-1.xml.gz">>

\* the streams whose 'open' event was delivered to the listener
Opened ==
  {i \in 1..Len(streams) :
     streams[i].status \in {"ended", "finished", "write failed",
                            "listener threw"}}

\* C16: for a SitemapIndex constructed with a valid target directory and a
\* callback, once the stream of every chunk file and of the index file has
\* opened, the callback is invoked with (null, true), whatever the number of
\* chunks.  (Only an 'open' listener invokes the callback, so a callback not
\* invoked when the last listener has run is never invoked.)
C16_CallbackWhenAllOpened ==
  (/\ ixPc = "constructed"
   /\ callback = "function"
   /\ Opened = 1..Len(streams)) =>
    callbackCalls = <<[err |-> "null", result |-> "true"]>>

Min(a, b) == IF a <= b THEN a ELSE b

\* the i-th contiguous group of sitemapSize entries of the input
Group(i) ==
  SubSeq(ixUrls, (i - 1) * sitemapSize + 1,
         Min(i * sitemapSize, Len(ixUrls)))

\* C18: in every order of the stream events, the file with sequential id i
\* (stream i + 1 in creation order) has the path of filename i, a path no
\* other stream has, and receives the serialization of the i-th contiguous
\* group of the input and nothing else; before its listener has run
\* nothing is written to it.
C18_FileReceivesItsChunk ==
  ixPc = "constructed" =>
    \A i \in 1..Len(chunks) :
      /\ streams[i].path =
           targetFolder \o "/" \o sitemapName \o "-" \o ToString(i - 1)
             \o (IF ixGzip THEN ".xml.gz" ELSE ".xml")
      /\ \A j \in 1..Len(streams) : j # i => streams[j].path # streams[i].path
      /\ IF i \in Counted
           THEN /\ Locs(streams[i].written) =
                     [j \in 1..Len(Group(i)) |->
                        smiUrl(ixHostname, Group(i)[j])]
                /\ ixGzip <=> Head(streams[i].written).tag = "gzip"
           ELSE streams[i].written = <<>>

\* p1, {url: "/p2"}, p1 in groups of 2 under http://h/: sitemap-1.xml was
\* written before sitemap-0.xml was opened
C18_Witness ==
  /\ ixPc = "constructed"
  /\ Len(chunks) = 2
  /\ Len(chunks[1]) = 2
  /\ streams[1].status = "created"
  /\ streams[2].status = "finished"
  /\ streams[2].path = "directory/sitemap-1.xml"
  /\ Locs(streams[2].written) =
       << <<"h", "t", "t", "p", ":", "/", "/", "h", "/", "p", "1">> >>

\* the <sitemap> blocks of an index document, in order
SitemapBlocks(xml) == SelectSeq(xml, LAMBDA n : n.tag = "sitemap")

\* C19: the index document has exactly one <sitemap> block per filename of
\* sitemaps, in the same order, each with loc = hostname + "/" + filename,
\* and none when there is no chunk; it is what the index file receives.
C19_IndexManifest ==
  ixPc = "constructed" =>
    LET ix     == streams[Len(streams)]
        xml    == ix.listener.xmlString
        blocks == SitemapBlocks(xml)
        host   == IF ixHostname = <<>> THEN <<"undefined">> ELSE ixHostname
    IN  /\ ~ix.listener.isChunk
        /\ ix.path = targetFolder \o "/" \o sitemapName \o "-index.xml"
        /\ Len(blocks) = Len(sitemaps)
        /\ \A i \in 1..Len(blocks) :
             blocks[i].val = host \o <<"/", sitemaps[i]>>
        /\ chunks = <<>> => blocks = <<>>
        /\ IF Len(streams) \in Counted THEN ix.written = xml
                                        ELSE ix.written = <<>>

C19_Witness ==
  /\ ixPc = "constructed"
  /\ streams[Len(streams)].status = "finished"
  /\ SitemapBlocks(streams[Len(streams)].written) =
       <<Node("sitemap", Host \o <<"/", "sitemap-0.xml">>),
         Node("sitemap", Host \o <<"/", "sitemap-1.xml">>)>>

====
